---------------------------- MODULE Spec2Model ----------------------------
(***************************************************************************)
(* Model of rest_server.mjs: the REST handlers over the St. Paul crime     *)
(* database (GET /codes, /neighborhoods, /incidents, PUT /new-incident,    *)
(* DELETE /remove-incident) and the sqlite3 store they talk to.            *)
(*                                                                         *)
(* Text that the handlers take apart (query parameters, dates, times) is   *)
(* a sequence of one-character strings, so that split, trim, parseInt and  *)
(* SQLite's date()/time() are computed character by character.  SQL text   *)
(* is a sequence of fragments whose concatenation is the statement; every  *)
(* placeholder is the fragment "?".                                        *)
(***************************************************************************)
EXTENDS Integers, Sequences, FiniteSets, TLC

(***************************************************************************)
(* Characters and text                                                     *)
(***************************************************************************)

\* The characters in use, in ASCII order (space 32 , 44 - 45 0..9 48..57 : 58 a.. 97..)
Ascii == << " ", ",", "-", "0", "1", "2", "3", "4", "5", "6", "7", "8", "9",
            ":", "a", "b", "x" >>

OrdTable ==
    [c \in {Ascii[i] : i \in DOMAIN Ascii} |-> CHOOSE i \in DOMAIN Ascii : Ascii[i] = c]

Ord(c) == OrdTable[c]

IsDigit(c) == c \in {"0", "1", "2", "3", "4", "5", "6", "7", "8", "9"}

DigitVal(c) == Ord(c) - Ord("0")

\* Binary (memcmp) order on text, the order of SQLite's BINARY collation.
RECURSIVE TextLess(_, _)
TextLess(a, b) ==
    IF b = <<>> THEN FALSE
    ELSE IF a = <<>> THEN TRUE
    ELSE IF Head(a) = Head(b) THEN TextLess(Tail(a), Tail(b))
    ELSE Ord(Head(a)) < Ord(Head(b))

TextLeq(a, b) == a = b \/ TextLess(a, b)

\* String.prototype.split(','): the pieces between commas, empty pieces kept.
RECURSIVE SplitFrom(_, _)
SplitFrom(s, cur) ==
    IF s = <<>> THEN << cur >>
    ELSE IF Head(s) = "," THEN << cur >> \o SplitFrom(Tail(s), <<>>)
    ELSE SplitFrom(Tail(s), Append(cur, Head(s)))

Split(s) == SplitFrom(s, <<>>)

RECURSIVE TrimLeft(_)
TrimLeft(s) == IF s # <<>> /\ Head(s) = " " THEN TrimLeft(Tail(s)) ELSE s

RECURSIVE TrimRight(_)
TrimRight(s) ==
    IF s # <<>> /\ s[Len(s)] = " " THEN TrimRight(SubSeq(s, 1, Len(s) - 1)) ELSE s

\* String.prototype.trim()
Trim(s) == TrimRight(TrimLeft(s))

(***************************************************************************)
(* Values bound to placeholders and held in result columns.                *)
(***************************************************************************)
IntVal(n) == [t |-> "int", v |-> n]
TextVal(s) == [t |-> "text", v |-> s]
NaN == [t |-> "nan", v |-> 0]
Null == [t |-> "null", v |-> 0]

\* The length of the longest prefix of s made of decimal digits.
RECURSIVE DigitPrefix(_)
DigitPrefix(s) ==
    IF s # <<>> /\ IsDigit(Head(s)) THEN 1 + DigitPrefix(Tail(s)) ELSE 0

RECURSIVE Decimal(_, _)
Decimal(s, acc) ==
    IF s = <<>> THEN acc ELSE Decimal(Tail(s), 10 * acc + DigitVal(Head(s)))

\* parseInt(s) in radix 10: leading blanks skipped, an optional sign, then the
\* longest run of digits; NaN when there is no digit.  Whatever follows the
\* digits is ignored.
ParseInt(s) ==
    LET t == TrimLeft(s)
        neg == t # <<>> /\ Head(t) = "-"
        u == IF neg THEN Tail(t) ELSE t
        n == DigitPrefix(u)
        m == Decimal(SubSeq(u, 1, n), 0)
    IN  IF n = 0 THEN NaN ELSE IntVal(IF neg THEN 0 - m ELSE m)


(***************************************************************************)
(* SQLite's date(X) and time(X) on the text X of the date_time column.     *)
(* Modelled: the forms YYYY-MM-DD, YYYY-MM-DD HH:MM and                    *)
(* YYYY-MM-DD HH:MM:SS (blanks between date and time, blanks at the end).  *)
(* Any other text has no date and no time: the functions return NULL.      *)
(* Not modelled, and absent from every input below: fractions of a second, *)
(* time zones, the T separator, time-only text, Julian day numbers, and    *)
(* the carry of a day beyond the end of its month.                         *)
(***************************************************************************)
TwoDigits(s, i) == Len(s) >= i + 1 /\ IsDigit(s[i]) /\ IsDigit(s[i + 1])

Num2(s, i) == 10 * DigitVal(s[i]) + DigitVal(s[i + 1])

ValidYmd(s) ==
    /\ Len(s) >= 10
    /\ TwoDigits(s, 1) /\ TwoDigits(s, 3)
    /\ s[5] = "-" /\ TwoDigits(s, 6)
    /\ s[8] = "-" /\ TwoDigits(s, 9)
    /\ Num2(s, 6) \in 1..12
    /\ Num2(s, 9) \in 1..31

\* The time of day in text r (what follows the date): <<>> when r is no time.
HhMmSs(r) ==
    IF r = <<>> THEN << "0", "0", ":", "0", "0", ":", "0", "0" >>
    ELSE IF ~(/\ Len(r) >= 5
              /\ TwoDigits(r, 1) /\ r[3] = ":" /\ TwoDigits(r, 4)
              /\ Num2(r, 1) <= 24 /\ Num2(r, 4) <= 59)
    THEN <<>>
    ELSE LET hm == SubSeq(r, 1, 5)
             rest == SubSeq(r, 6, Len(r))
         IN  IF TrimLeft(rest) = <<>> THEN hm \o << ":", "0", "0" >>
             ELSE IF /\ Len(rest) >= 3
                     /\ rest[1] = ":" /\ TwoDigits(rest, 2)
                     /\ Num2(rest, 2) <= 59
                     /\ TrimLeft(SubSeq(rest, 4, Len(rest))) = <<>>
             THEN hm \o SubSeq(rest, 1, 3)
             ELSE <<>>

ParsesAsDateTime(s) ==
    ValidYmd(s) /\ HhMmSs(TrimLeft(SubSeq(s, 11, Len(s)))) # <<>>

SqliteDate(s) == IF ParsesAsDateTime(s) THEN TextVal(SubSeq(s, 1, 10)) ELSE Null

SqliteTime(s) ==
    LET hms == IF ValidYmd(s) THEN HhMmSs(TrimLeft(SubSeq(s, 11, Len(s)))) ELSE <<>>
    IN  IF hms # <<>> THEN TextVal(hms) ELSE Null

(***************************************************************************)
(* SQL text                                                                *)
(***************************************************************************)
CodesBase == "SELECT code, incident_type as type FROM Codes"
NeighborhoodsBase ==
    "SELECT neighborhood_number as id, neighborhood_name as name FROM Neighborhoods"
IncidentsBase ==
    "SELECT case_number, date(date_time) as date, time(date_time) as time, code, incident, police_grid, neighborhood_number, block FROM Incidents"
ExistsQuery == << "SELECT case_number FROM Incidents WHERE case_number = ", "?" >>
InsertQuery ==
    << "INSERT INTO Incidents (case_number, date_time, code, incident, police_grid, neighborhood_number, block) VALUES (",
       "?", ", ", "?", ", ", "?", ", ", "?", ", ", "?", ", ", "?", ", ", "?", ")" >>
DeleteQuery == << "DELETE FROM Incidents WHERE case_number = ", "?" >>

DateGe == "date(date_time) >= "
DateLe == "date(date_time) <= "
CodeIn == "code IN ("
GridIn == "police_grid IN ("
NeighborhoodIn == "neighborhood_number IN ("
InFrags == {CodeIn, GridIn, NeighborhoodIn}
CompareFrags == {DateGe, DateLe}

\* codes.map(() => '?').join(',')
RECURSIVE Marks(_)
Marks(n) ==
    IF n = 0 THEN <<>>
    ELSE IF n = 1 THEN << "?" >>
    ELSE << "?", "," >> \o Marks(n - 1)

\* conditions.join(' AND ')
RECURSIVE JoinAnd(_)
JoinAnd(conds) ==
    IF conds = <<>> THEN <<>>
    ELSE IF Len(conds) = 1 THEN conds[1]
    ELSE conds[1] \o << " AND " >> \o JoinAnd(Tail(conds))

RECURSIVE CountMarks(_)
CountMarks(sql) ==
    IF sql = <<>> THEN 0
    ELSE (IF Head(sql) = "?" THEN 1 ELSE 0) + CountMarks(Tail(sql))

\* The same with the tokens that are no number dropped:
\* .map(c => parseInt(c.trim())).filter(n => !isNaN(n))
RECURSIVE MapParseIntDroppingNaN(_)
MapParseIntDroppingNaN(tokens) ==
    IF tokens = <<>> THEN <<>>
    ELSE (IF ParseInt(Trim(Head(tokens))) = NaN THEN <<>>
          ELSE << ParseInt(Trim(Head(tokens))) >>)
         \o MapParseIntDroppingNaN(Tail(tokens))

\* req.query.x.split(',').map(c => parseInt(c.trim()))
RECURSIVE MapParseInt(_)
MapParseInt(tokens) ==
    IF tokens = <<>> THEN <<>>
    ELSE << ParseInt(Trim(Head(tokens))) >> \o MapParseInt(Tail(tokens))

ParseList(s) == MapParseInt(Split(s))

\* A query parameter that is not given, or given empty, is falsy in the
\* handlers' if (req.query.x) tests.
Absent == <<>>
Given(x) == x # Absent

(***************************************************************************)
(* The filter builders of the three GET handlers.  A request's query is a  *)
(* record of texts; each builder returns the statement and its parameters. *)
(***************************************************************************)
DefaultLimit == 1000

\* One list filter: `col IN (?,...,?)` and the parsed values.
InCondition(frag, values) == << frag >> \o Marks(Len(values)) \o << ")" >>

WhereClause(conditions) ==
    IF Len(conditions) > 0 THEN << " WHERE " >> \o JoinAnd(conditions) ELSE <<>>

BuildCodes(q) ==
    LET codes == IF Given(q.code) THEN ParseList(q.code) ELSE <<>>
        conditions == IF Given(q.code) THEN << InCondition(CodeIn, codes) >> ELSE <<>>
    IN  [sql |-> << CodesBase >> \o WhereClause(conditions) \o << " ORDER BY code" >>,
         params |-> codes]

BuildNeighborhoods(q) ==
    LET ids == IF Given(q.id) THEN ParseList(q.id) ELSE <<>>
        conditions ==
            IF Given(q.id) THEN << InCondition(NeighborhoodIn, ids) >> ELSE <<>>
    IN  [sql |-> << NeighborhoodsBase >> \o WhereClause(conditions)
                    \o << " ORDER BY neighborhood_number" >>,
         params |-> ids]

\* BuildIncidents with `code IN (${req.query.code})`: the codes in the text.
BuildIncidentsInterpolated(q) ==
    LET codes == IF Given(q.code) THEN ParseList(q.code) ELSE <<>>
        grids == IF Given(q.grid) THEN ParseList(q.grid) ELSE <<>>
        neighborhoods ==
            IF Given(q.neighborhood) THEN ParseList(q.neighborhood) ELSE <<>>
        conditions ==
            (IF Given(q.start_date) THEN << << DateGe, "?" >> >> ELSE <<>>)
            \o (IF Given(q.end_date) THEN << << DateLe, "?" >> >> ELSE <<>>)
            \o (IF Given(q.code) THEN << << CodeIn >> \o q.code \o << ")" >> >> ELSE <<>>)
            \o (IF Given(q.grid) THEN << InCondition(GridIn, grids) >> ELSE <<>>)
            \o (IF Given(q.neighborhood)
                THEN << InCondition(NeighborhoodIn, neighborhoods) >> ELSE <<>>)
        limit == IF Given(q.limit) THEN ParseInt(q.limit) ELSE IntVal(DefaultLimit)
    IN  [sql |-> << IncidentsBase >> \o WhereClause(conditions)
                    \o << " ORDER BY date_time DESC", " LIMIT ", "?" >>,
         params |->
            (IF Given(q.start_date) THEN << TextVal(q.start_date) >> ELSE <<>>)
            \o (IF Given(q.end_date) THEN << TextVal(q.end_date) >> ELSE <<>>)
            \o grids \o neighborhoods \o << limit >>]

\* BuildIncidents with the end_date condition a copy of the start_date one.
BuildIncidentsEndAsStart(q) ==
    LET codes == IF Given(q.code) THEN ParseList(q.code) ELSE <<>>
        grids == IF Given(q.grid) THEN ParseList(q.grid) ELSE <<>>
        neighborhoods ==
            IF Given(q.neighborhood) THEN ParseList(q.neighborhood) ELSE <<>>
        conditions ==
            (IF Given(q.start_date) THEN << << DateGe, "?" >> >> ELSE <<>>)
            \o (IF Given(q.end_date) THEN << << DateGe, "?" >> >> ELSE <<>>)
            \o (IF Given(q.code) THEN << InCondition(CodeIn, codes) >> ELSE <<>>)
            \o (IF Given(q.grid) THEN << InCondition(GridIn, grids) >> ELSE <<>>)
            \o (IF Given(q.neighborhood)
                THEN << InCondition(NeighborhoodIn, neighborhoods) >> ELSE <<>>)
        limit == IF Given(q.limit) THEN ParseInt(q.limit) ELSE IntVal(DefaultLimit)
    IN  [sql |-> << IncidentsBase >> \o WhereClause(conditions)
                    \o << " ORDER BY date_time DESC", " LIMIT ", "?" >>,
         params |->
            (IF Given(q.start_date) THEN << TextVal(q.start_date) >> ELSE <<>>)
            \o (IF Given(q.end_date) THEN << TextVal(q.end_date) >> ELSE <<>>)
            \o codes \o grids \o neighborhoods \o << limit >>]

BuildIncidents(q) ==
    LET codes == IF Given(q.code) THEN ParseList(q.code) ELSE <<>>
        grids == IF Given(q.grid) THEN ParseList(q.grid) ELSE <<>>
        neighborhoods ==
            IF Given(q.neighborhood) THEN ParseList(q.neighborhood) ELSE <<>>
        conditions ==
            (IF Given(q.start_date) THEN << << DateGe, "?" >> >> ELSE <<>>)
            \o (IF Given(q.end_date) THEN << << DateLe, "?" >> >> ELSE <<>>)
            \o (IF Given(q.code) THEN << InCondition(CodeIn, codes) >> ELSE <<>>)
            \o (IF Given(q.grid) THEN << InCondition(GridIn, grids) >> ELSE <<>>)
            \o (IF Given(q.neighborhood)
                THEN << InCondition(NeighborhoodIn, neighborhoods) >> ELSE <<>>)
        limit == IF Given(q.limit) THEN ParseInt(q.limit) ELSE IntVal(DefaultLimit)
    IN  [sql |-> << IncidentsBase >> \o WhereClause(conditions)
                    \o << " ORDER BY date_time DESC", " LIMIT ", "?" >>,
         params |->
            (IF Given(q.start_date) THEN << TextVal(q.start_date) >> ELSE <<>>)
            \o (IF Given(q.end_date) THEN << TextVal(q.end_date) >> ELSE <<>>)
            \o codes \o grids \o neighborhoods \o << limit >>]

(***************************************************************************)
(* The store: sqlite3 executing a statement with its bound parameters.     *)
(* The statement is interpreted from its text: each condition takes the    *)
(* next placeholders in order.                                             *)
(***************************************************************************)
\* The i-th bound parameter; a placeholder left unbound is NULL.
Param(params, i) == IF i \in DOMAIN params THEN params[i] ELSE Null

\* Comparison in SQL: NULL (and NaN, which is bound as NULL) equals nothing.
SqlEq(a, b) == a.t = b.t /\ a.t \in {"int", "text"} /\ a.v = b.v

\* The number of placeholders of an IN list, from just after its "(".
RECURSIVE MarksToClose(_)
MarksToClose(f) ==
    IF f = <<>> \/ Head(f) = ")" THEN 0
    ELSE (IF Head(f) = "?" THEN 1 ELSE 0) + MarksToClose(Tail(f))

\* The conditions of a statement, each with the index of its first
\* placeholder and the number of its placeholders.
RECURSIVE ParseConds(_, _)
ParseConds(f, p) ==
    IF f = <<>> THEN <<>>
    ELSE IF Head(f) \in CompareFrags
    THEN << [frag |-> Head(f), first |-> p, n |-> 1] >> \o ParseConds(Tail(f), p)
    ELSE IF Head(f) \in InFrags
    THEN << [frag |-> Head(f), first |-> p, n |-> MarksToClose(Tail(f))] >>
         \o ParseConds(Tail(f), p)
    ELSE ParseConds(Tail(f), IF Head(f) = "?" THEN p + 1 ELSE p)

\* The column of a row that an IN condition tests.
ColumnOf(frag, row) ==
    IF frag = CodeIn THEN IntVal(row.code)
    ELSE IF frag = GridIn THEN IntVal(row.police_grid)
    ELSE IntVal(row.neighborhood_number)

CondHolds(c, params, row) ==
    IF c.frag = DateGe
    THEN LET d == SqliteDate(row.date_time)
             x == Param(params, c.first)
         IN  d.t = "text" /\ x.t = "text" /\ TextLeq(x.v, d.v)
    ELSE IF c.frag = DateLe
    THEN LET d == SqliteDate(row.date_time)
             x == Param(params, c.first)
         IN  d.t = "text" /\ x.t = "text" /\ TextLeq(d.v, x.v)
    ELSE \E i \in c.first..(c.first + c.n - 1) :
            SqlEq(ColumnOf(c.frag, row), Param(params, i))

\* WHERE c1 AND ... AND cn
RowMatches(conds, params, row) ==
    \A k \in DOMAIN conds : CondHolds(conds[k], params, row)

RECURSIVE KeysDescending(_)
KeysDescending(keys) ==
    IF keys = {} THEN <<>>
    ELSE LET top == CHOOSE x \in keys : \A y \in keys : TextLeq(y, x)
         IN  << top >> \o KeysDescending(keys \ {top})

RECURSIVE RowsByKeys(_, _)
RowsByKeys(rows, keys) ==
    IF keys = <<>> THEN <<>>
    ELSE SelectSeq(rows, LAMBDA r : r.date_time = Head(keys))
         \o RowsByKeys(rows, Tail(keys))

\* ORDER BY date_time DESC on the stored text; rows with the same date_time
\* stay in insertion order.
OrderByDateTimeDesc(rows) ==
    RowsByKeys(rows, KeysDescending({rows[i].date_time : i \in DOMAIN rows}))

\* LIMIT k returning one row more.
SqlLimitOneMore(rows, k) ==
    IF k < 0 \/ k + 1 >= Len(rows) THEN rows ELSE SubSeq(rows, 1, k + 1)

\* LIMIT k: a negative k is no limit.
SqlLimit(rows, k) ==
    IF k < 0 \/ k >= Len(rows) THEN rows ELSE SubSeq(rows, 1, k)

\* The columns GET /incidents selects.
Project(row) ==
    [case_number |-> row.case_number,
     date |-> SqliteDate(row.date_time),
     time |-> SqliteTime(row.date_time),
     code |-> row.code,
     incident |-> row.incident,
     police_grid |-> row.police_grid,
     neighborhood_number |-> row.neighborhood_number,
     block |-> row.block]

ProjectAll(rows) == [i \in DOMAIN rows |-> Project(rows[i])]

\* db.all of the /incidents statement on the Incidents table.  More bound
\* values than placeholders, or a LIMIT that is not an integer (NaN is
\* bound as NULL), make the statement fail.  Beside the rows handed to the
\* callback the result names the table rows the WHERE clause matched and
\* the table rows the returned ones are the columns of.
SelectIncidents(sql, params, table) ==
    LET limit == Param(params, CountMarks(sql))
        conds == ParseConds(sql, 1)
        matched == SelectSeq(table, LAMBDA r : RowMatches(conds, params, r))
        picked == SqlLimit(OrderByDateTimeDesc(matched), limit.v)
    IN  IF Len(params) > CountMarks(sql) \/ limit.t # "int"
        THEN [err |-> TRUE, matched |-> <<>>, picked |-> <<>>, rows |-> <<>>]
        ELSE [err |-> FALSE, matched |-> matched, picked |-> picked,
              rows |-> ProjectAll(picked)]

RECURSIVE IntsAscending(_)
IntsAscending(keys) ==
    IF keys = {} THEN <<>>
    ELSE LET low == CHOOSE x \in keys : \A y \in keys : x <= y
         IN  << low >> \o IntsAscending(keys \ {low})

\* db.all of the /codes statement: code, incident_type as type ... ORDER BY code
RECURSIVE CodesByKeys(_, _)
CodesByKeys(rows, keys) ==
    IF keys = <<>> THEN <<>>
    ELSE SelectSeq(rows, LAMBDA r : r.code = Head(keys)) \o CodesByKeys(rows, Tail(keys))

CodesProjected(rows) ==
    [i \in DOMAIN rows |-> [code |-> rows[i].code, type |-> rows[i].incident_type]]

SelectCodes(sql, params, table) ==
    LET conds == ParseConds(sql, 1)
        matched == SelectSeq(table, LAMBDA r : RowMatches(conds, params, r))
    IN  IF Len(params) > CountMarks(sql)
        THEN [err |-> TRUE, matched |-> <<>>, picked |-> <<>>, rows |-> <<>>]
        ELSE [err |-> FALSE, matched |-> matched, picked |-> matched,
              rows |-> CodesProjected(CodesByKeys(matched,
                          IntsAscending({matched[i].code : i \in DOMAIN matched})))]

\* db.all of the /neighborhoods statement:
\* neighborhood_number as id, neighborhood_name as name ... ORDER BY neighborhood_number
RECURSIVE NeighborhoodsByKeys(_, _)
NeighborhoodsByKeys(rows, keys) ==
    IF keys = <<>> THEN <<>>
    ELSE SelectSeq(rows, LAMBDA r : r.neighborhood_number = Head(keys))
         \o NeighborhoodsByKeys(rows, Tail(keys))

NeighborhoodsProjected(rows) ==
    [i \in DOMAIN rows |-> [id |-> rows[i].neighborhood_number,
                            name |-> rows[i].neighborhood_name]]

SelectNeighborhoods(sql, params, table) ==
    LET conds == ParseConds(sql, 1)
        matched == SelectSeq(table, LAMBDA r : RowMatches(conds, params, r))
    IN  IF Len(params) > CountMarks(sql)
        THEN [err |-> TRUE, matched |-> <<>>, picked |-> <<>>, rows |-> <<>>]
        ELSE [err |-> FALSE, matched |-> matched, picked |-> matched,
              rows |-> NeighborhoodsProjected(NeighborhoodsByKeys(matched,
                          IntsAscending({matched[i].neighborhood_number :
                                            i \in DOMAIN matched})))]

\* db.all of 'SELECT case_number FROM Incidents WHERE case_number = ?'
SelectExisting(params, table) ==
    SelectSeq(table, LAMBDA r : r.case_number = params[1])

\* db.run of the INSERT: one new row from the seven bound values.
RunInsert(params, table) ==
    Append(table, [case_number |-> params[1],
                   date_time |-> params[2],
                   code |-> params[3],
                   incident |-> params[4],
                   police_grid |-> params[5],
                   neighborhood_number |-> params[6],
                   block |-> params[7]])

\* The DELETE without its WHERE clause.
RunDeleteEveryRow(params, table) == SubSeq(table, 1, 0)

\* db.run of 'DELETE FROM Incidents WHERE case_number = ?'
RunDelete(params, table) ==
    SelectSeq(table, LAMBDA r : r.case_number # params[1])

RunStatement(sql, params, table) ==
    IF sql = InsertQuery THEN RunInsert(params, table) ELSE RunDelete(params, table)

(***************************************************************************)
(* Data: request texts, table rows, request bodies.                        *)
(***************************************************************************)
Jan05 == << "2", "0", "2", "3", "-", "0", "1", "-", "0", "5" >>
Jan06 == << "2", "0", "2", "3", "-", "0", "1", "-", "0", "6" >>
\* Not of the form YYYY-MM-DD: date() and time() of it are NULL.
LooseDate == << "2", "0", "2", "3", "-", "1", "-", "5" >>
Time0800 == << "0", "8", ":", "0", "0", ":", "0", "0" >>
Time0915 == << "0", "9", ":", "1", "5", ":", "0", "0" >>
\* HH:MM, which SQLite reads as a time and time() returns as HH:MM:00.
ShortTime == << "1", "2", ":", "3", "0" >>
CaseA == << "1", "0", "1" >>
CaseB == << "1", "0", "2" >>
CaseC == << "1", "0", "3" >>
CaseD == << "1", "0", "4" >>

\* `${date}${time}`
DateTimeUnspaced(date, time) == date \o time

\* `${date} ${time}`
DateTime(date, time) == date \o << " " >> \o time

Row(case, dt, code, grid, nb) ==
    [case_number |-> case, date_time |-> dt, code |-> code, incident |-> "Theft",
     police_grid |-> grid, neighborhood_number |-> nb, block |-> "10X MAIN ST"]

RowA == Row(CaseA, DateTime(Jan05, Time0800), 1, 5, 7)
RowB == Row(CaseB, DateTime(Jan06, ShortTime), 2, 5, 8)
RowC == Row(CaseC, DateTime(Jan06, Time0915), 1, 6, 7)
RowD == Row(CaseD, DateTime(LooseDate, Time0800), 2, 5, 9)

RECURSIVE Digits(_)
Digits(n) ==
    IF n < 10 THEN << Ascii[Ord("0") + n] >>
    ELSE Digits(n \div 10) \o << Ascii[Ord("0") + (n % 10)] >>

\* A table with more rows than the default limit, on two days.
ManyRows ==
    [i \in 1..(DefaultLimit + 1) |->
        Row(Digits(2000 + i),
            DateTime(IF i % 2 = 0 THEN Jan05 ELSE Jan06, Time0800),
            1 + (i % 2), 5, 7)]

CodesTable ==
    << [code |-> 2, incident_type |-> "Robbery"],
       [code |-> 1, incident_type |-> "Murder"],
       [code |-> 12, incident_type |-> "Theft"] >>

NeighborhoodsTable ==
    << [neighborhood_number |-> 8, neighborhood_name |-> "Summit-University"],
       [neighborhood_number |-> 7, neighborhood_name |-> "Thomas-Dale"],
       [neighborhood_number |-> 9, neighborhood_name |-> "West Seventh"] >>

Body(case, date, time, code, grid, nb) ==
    [case_number |-> case, date |-> date, time |-> time, code |-> code,
     incident |-> "Theft", police_grid |-> grid, neighborhood_number |-> nb,
     block |-> "10X MAIN ST"]

\* The bodies of the PUT /new-incident requests.
PutBodies ==
    { Body(CaseA, Jan06, ShortTime, 1, 5, 7),
      Body(CaseB, Jan06, Time0800, 2, 6, 8),
      Body(CaseB, LooseDate, Time0800, 2, 6, 8) }

\* The bodies of the DELETE /remove-incident requests.
DeleteBodies == { [case_number |-> CaseA] }

\* The list parameters of the GET requests.
One == << "1" >>
Two == << "2" >>
OneTwo == << "1", ",", "2" >>
TwoBad == << "2", ",", " ", "x" >>
Five == << "5" >>
SevenEight == << " ", "7", " ", ",", "8" >>
Nine == << "9" >>
Zero == << "0" >>
MinusOne == << "-", "1" >>
Bad == << "a", "b" >>

IncidentQuery(sd, ed, code, grid, nb, limit) ==
    [start_date |-> sd, end_date |-> ed, code |-> code, grid |-> grid,
     neighborhood |-> nb, limit |-> limit]

\* The queries of GET /incidents.
IncidentQueries ==
    { IncidentQuery(sd, ed, code, grid, nb, limit) :
        sd \in {Absent, Jan05}, ed \in {Absent, Jan06},
        code \in {Absent, One, OneTwo, TwoBad}, grid \in {Absent, Five},
        nb \in {Absent, SevenEight}, limit \in {Absent, One, Two, Zero, MinusOne, Bad} }

\* The queries of GET /incidents that follow the writes of PUT and DELETE.
FollowUpQueries ==
    { IncidentQuery(Absent, Absent, Absent, Absent, Absent, Absent),
      IncidentQuery(Jan06, Absent, Absent, Absent, Absent, One) }

\* The queries of GET /codes and of GET /neighborhoods.
CodeQueries ==
    { [code |-> c, plain |-> f] : c \in {Absent, One, Two, OneTwo, TwoBad, Bad},
                                  f \in BOOLEAN }
NeighborhoodQueries ==
    { [id |-> c, plain |-> f] : c \in {Absent, Nine, SevenEight, TwoBad, Bad},
                                f \in BOOLEAN }

(***************************************************************************)
(* State                                                                   *)
(***************************************************************************)
\* The number of PUT and DELETE requests a behaviour serves.
NumReq == 2

Req == 1..NumReq

VARIABLES
    incidents,  \* the Incidents table, rows in insertion order
    pc,         \* per request: where its handler stands
    req,        \* per request: method and body
    call,       \* per request: the statement handed to dbSelect or dbRun
    outcome,    \* per request: what the store passed to the callback
    resp,       \* per request: the responses sent, in order
    wrote,      \* per request: the writes the store has executed for it
    lastGet     \* the last GET exchange: request, statement, response

vars == << incidents, pc, req, call, outcome, resp, wrote, lastGet >>

NoReq == [method |-> "none", body |-> [case_number |-> <<>>]]
NoCall == [sql |-> <<>>, params |-> <<>>]
NoOutcome == [err |-> FALSE, rows |-> <<>>]
NoGet ==
    [endpoint |-> "none", query |-> <<>>, sql |-> <<>>, params |-> <<>>,
     status |-> 0, body |-> "", matched |-> <<>>, picked |-> <<>>, rows |-> <<>>]

Response(status, text) == [status |-> status, type |-> "txt", body |-> text]

Idle ==
    /\ pc = [r \in Req |-> "idle"]
    /\ req = [r \in Req |-> NoReq]
    /\ call = [r \in Req |-> NoCall]
    /\ outcome = [r \in Req |-> NoOutcome]
    /\ resp = [r \in Req |-> <<>>]
    /\ wrote = [r \in Req |-> 0]
    /\ lastGet = NoGet

\* The server starts on a database file that holds rows already.
Init == incidents = << RowA >> /\ Idle

(***************************************************************************)
(* PUT /new-incident and DELETE /remove-incident.  A handler runs up to    *)
(* its next await; the store executes the pending statement between two    *)
(* such runs, and the runs of different requests interleave.               *)
(***************************************************************************)
\* dbSelect: db.all queued; the promise settles when the store has answered.
DbSelect(r, sql, params) ==
    /\ call' = [call EXCEPT ![r] = [sql |-> sql, params |-> params]]
    /\ pc' = [pc EXCEPT ![r] = "select"]

\* dbRun: db.run queued.
DbRun(r, sql, params) ==
    /\ call' = [call EXCEPT ![r] = [sql |-> sql, params |-> params]]
    /\ pc' = [pc EXCEPT ![r] = "run"]

\* res.status(s).type('txt').send(text), after which the handler returns.
Send(r, status, text) ==
    /\ resp' = [resp EXCEPT ![r] = Append(@, Response(status, text))]
    /\ pc' = [pc EXCEPT ![r] = "done"]

\* The handler is called with the request and awaits the existence check.
PutStart(r, body) ==
    /\ pc[r] = "idle"
    /\ req' = [req EXCEPT ![r] = [method |-> "PUT", body |-> body]]
    /\ DbSelect(r, ExistsQuery, << body.case_number >>)
    /\ UNCHANGED << incidents, outcome, resp, wrote, lastGet >>

DeleteStart(r, body) ==
    /\ pc[r] = "idle"
    /\ req' = [req EXCEPT ![r] = [method |-> "DELETE", body |-> body]]
    /\ DbSelect(r, ExistsQuery, << body.case_number >>)
    /\ UNCHANGED << incidents, outcome, resp, wrote, lastGet >>

\* A store that inserts at the existence check when the check finds no row.
StoreAllWritingAtOnce(r) ==
    /\ pc[r] = "select"
    /\ \E err \in BOOLEAN :
          LET found == SelectExisting(call[r].params, incidents)
              b == req[r].body
              write == ~err /\ req[r].method = "PUT" /\ found = <<>>
          IN  /\ outcome' = [outcome EXCEPT ![r] =
                     [err |-> err, rows |-> IF err THEN <<>> ELSE found]]
              /\ incidents' =
                     IF write
                     THEN RunInsert(<< b.case_number, DateTime(b.date, b.time), b.code,
                                       b.incident, b.police_grid,
                                       b.neighborhood_number, b.block >>, incidents)
                     ELSE incidents
              /\ wrote' = [wrote EXCEPT ![r] = IF write THEN @ + 1 ELSE @]
              /\ pc' = [pc EXCEPT ![r] = IF write THEN "ran" ELSE "selected"]
    /\ UNCHANGED << req, call, resp, lastGet >>

\* The store executes the pending db.all and calls back with err or rows.
StoreAll(r) ==
    /\ pc[r] = "select"
    /\ \E err \in BOOLEAN :
          outcome' = [outcome EXCEPT ![r] =
              IF err THEN [err |-> TRUE, rows |-> <<>>]
              ELSE [err |-> FALSE,
                    rows |-> SelectExisting(call[r].params, incidents)]]
    /\ pc' = [pc EXCEPT ![r] = "selected"]
    /\ UNCHANGED << incidents, req, call, resp, wrote, lastGet >>

\* The store executes the pending db.run and calls back with err or nothing.
\* A statement that fails changes no row.
StoreRun(r) ==
    /\ pc[r] = "run"
    /\ \E err \in BOOLEAN :
          /\ outcome' = [outcome EXCEPT ![r] = [err |-> err, rows |-> <<>>]]
          /\ incidents' = IF err THEN incidents
                          ELSE RunStatement(call[r].sql, call[r].params, incidents)
          /\ wrote' = [wrote EXCEPT ![r] = IF err THEN @ ELSE @ + 1]
    /\ pc' = [pc EXCEPT ![r] = "ran"]
    /\ UNCHANGED << req, call, resp, lastGet >>

\* PutChecked with the test existingCase.length > 1.
PutCheckedOffByOne(r) ==
    /\ pc[r] = "selected" /\ req[r].method = "PUT"
    /\ IF outcome[r].err
       THEN Send(r, 500, "Error inserting incident") /\ UNCHANGED call
       ELSE IF Len(outcome[r].rows) > 1
       THEN Send(r, 500, "Case number already exists in database") /\ UNCHANGED call
       ELSE LET b == req[r].body
            IN  /\ DbRun(r, InsertQuery,
                         << b.case_number, DateTime(b.date, b.time), b.code,
                            b.incident, b.police_grid, b.neighborhood_number,
                            b.block >>)
                /\ UNCHANGED resp
    /\ UNCHANGED << incidents, req, outcome, wrote, lastGet >>

\* PUT resumes after the existence check.
PutChecked(r) ==
    /\ pc[r] = "selected" /\ req[r].method = "PUT"
    /\ IF outcome[r].err
       THEN Send(r, 500, "Error inserting incident") /\ UNCHANGED call
       ELSE IF Len(outcome[r].rows) > 0
       THEN Send(r, 500, "Case number already exists in database") /\ UNCHANGED call
       ELSE LET b == req[r].body
            IN  /\ DbRun(r, InsertQuery,
                         << b.case_number, DateTime(b.date, b.time), b.code,
                            b.incident, b.police_grid, b.neighborhood_number,
                            b.block >>)
                /\ UNCHANGED resp
    /\ UNCHANGED << incidents, req, outcome, wrote, lastGet >>

\* PutWritten that answers OK whatever the store reported.
PutWrittenAlwaysOk(r) ==
    /\ pc[r] = "ran" /\ req[r].method = "PUT"
    /\ Send(r, 200, "OK")
    /\ UNCHANGED << incidents, req, call, outcome, wrote, lastGet >>

\* PUT resumes after the INSERT.
PutWritten(r) ==
    /\ pc[r] = "ran" /\ req[r].method = "PUT"
    /\ IF outcome[r].err
       THEN Send(r, 500, "Error inserting incident")
       ELSE Send(r, 200, "OK")
    /\ UNCHANGED << incidents, req, call, outcome, wrote, lastGet >>

\* DELETE resumes after the existence check.
DeleteChecked(r) ==
    /\ pc[r] = "selected" /\ req[r].method = "DELETE"
    /\ IF outcome[r].err
       THEN Send(r, 500, "Error deleting incident") /\ UNCHANGED call
       ELSE IF Len(outcome[r].rows) = 0
       THEN Send(r, 500, "Case number does not exist in database") /\ UNCHANGED call
       ELSE /\ DbRun(r, DeleteQuery, << req[r].body.case_number >>)
            /\ UNCHANGED resp
    /\ UNCHANGED << incidents, req, outcome, wrote, lastGet >>

\* DELETE resumes after the DELETE statement.
DeleteWritten(r) ==
    /\ pc[r] = "ran" /\ req[r].method = "DELETE"
    /\ IF outcome[r].err
       THEN Send(r, 500, "Error deleting incident")
       ELSE Send(r, 200, "OK")
    /\ UNCHANGED << incidents, req, call, outcome, wrote, lastGet >>

(***************************************************************************)
(* The GET handlers: the statement is built, the store executes it, the    *)
(* response is sent.  The result is the table's at the moment the store    *)
(* executes the statement.                                                 *)
(***************************************************************************)
Exchange(endpoint, q, stmt, err, result, failure) ==
    [endpoint |-> endpoint, query |-> q, sql |-> stmt.sql, params |-> stmt.params,
     status |-> IF err \/ result.err THEN 500 ELSE 200,
     body |-> IF err \/ result.err THEN failure
              ELSE IF endpoint = "/incidents" THEN "pretty"
              ELSE IF q.plain THEN "plain" ELSE "lines",
     matched |-> IF err THEN <<>> ELSE result.matched,
     picked |-> IF err THEN <<>> ELSE result.picked,
     rows |-> IF err THEN <<>> ELSE result.rows]

GetCodes(q) ==
    /\ \E err \in BOOLEAN :
          lastGet' = LET stmt == BuildCodes(q)
                     IN  Exchange("/codes", q, stmt, err,
                                  SelectCodes(stmt.sql, stmt.params, CodesTable),
                                  "Error retrieving codes")
    /\ UNCHANGED << incidents, pc, req, call, outcome, resp, wrote >>

GetNeighborhoods(q) ==
    /\ \E err \in BOOLEAN :
          lastGet' = LET stmt == BuildNeighborhoods(q)
                     IN  Exchange("/neighborhoods", q, stmt, err,
                                  SelectNeighborhoods(stmt.sql, stmt.params,
                                                      NeighborhoodsTable),
                                  "Error retrieving neighborhoods")
    /\ UNCHANGED << incidents, pc, req, call, outcome, resp, wrote >>

GetIncidents(q) ==
    /\ \E err \in BOOLEAN :
          lastGet' = LET stmt == BuildIncidents(q)
                     IN  Exchange("/incidents", q, stmt, err,
                                  SelectIncidents(stmt.sql, stmt.params, incidents),
                                  "Error retrieving incidents")
    /\ UNCHANGED << incidents, pc, req, call, outcome, resp, wrote >>

(***************************************************************************)
(* Specifications                                                          *)
(***************************************************************************)
Write(r) ==
    \/ \E b \in PutBodies : PutStart(r, b)
    \/ \E b \in DeleteBodies : DeleteStart(r, b)
    \/ StoreAll(r)
    \/ PutChecked(r)
    \/ DeleteChecked(r)
    \/ StoreRun(r)
    \/ PutWritten(r)
    \/ DeleteWritten(r)

Next ==
    \/ \E r \in Req : Write(r)
    \/ \E q \in FollowUpQueries : GetIncidents(q)

\* The server under PUT and DELETE requests in flight together, and GET
\* /incidents requests among them.
Spec == Init /\ [][Next]_vars

\* The tables the GET handlers are checked on: empty, a few rows of every
\* kind (two on one day, one with text that is no date), and more rows
\* than the default limit.
QueryTables == { <<>>, << RowA, RowB, RowC, RowD >>, ManyRows }

InitQuery == incidents \in QueryTables /\ Idle

\* One request per behaviour: the handlers keep no state of their own, so
\* a second request would start from a state some first request starts from.
NoOtherRequest(r) == lastGet = NoGet /\ \A o \in Req \ {r} : pc[o] = "idle"

ServeOne(get) == lastGet = NoGet /\ (\A r \in Req : pc[r] = "idle") /\ get

NextQuery ==
    \/ \E q \in CodeQueries : ServeOne(GetCodes(q))
    \/ \E q \in NeighborhoodQueries : ServeOne(GetNeighborhoods(q))
    \/ \E q \in IncidentQueries : ServeOne(GetIncidents(q))
    \/ \E r \in Req : NoOtherRequest(r) /\ Write(r)

\* Every handler on every request, one request at a time.
SpecQuery == InitQuery /\ [][NextQuery]_vars

NextWrite == \E r \in Req : Write(r)

\* The PUT and DELETE requests in flight together.
SpecWrite == Init /\ [][NextWrite]_vars

\* The store calls back for every statement it was handed, and a handler
\* whose promise has settled is resumed.  Requests need not arrive.
Fairness ==
    \A r \in Req :
        /\ WF_vars(StoreAll(r)) /\ WF_vars(StoreRun(r))
        /\ WF_vars(PutChecked(r)) /\ WF_vars(DeleteChecked(r))
        /\ WF_vars(PutWritten(r)) /\ WF_vars(DeleteWritten(r))

\* The PUT and DELETE requests in flight together, under that scheduling.
SpecLive == SpecWrite /\ Fairness

(***************************************************************************)
(* Properties                                                              *)
(***************************************************************************)
OkResponse == Response(200, "OK")
DuplicateResponse == Response(500, "Case number already exists in database")
MissingResponse == Response(500, "Case number does not exist in database")
InsertErrorResponse == Response(500, "Error inserting incident")
DeleteErrorResponse == Response(500, "Error deleting incident")

CaseOf(r) == req[r].body.case_number

\* The rows of a table with a given case_number, by position.
Holding(table, case) == {i \in DOMAIN table : table[i].case_number = case}

\* C1: at most one row of Incidents has any given case_number, in every
\* reachable state, whatever the interleaving of PUT and DELETE requests.
C1_UniqueCaseNumber ==
    \A i, j \in DOMAIN incidents :
        incidents[i].case_number = incidents[j].case_number => i = j

\* C2: a PUT /new-incident whose existence check finds its case_number in
\* Incidents answers 500 'Case number already exists in database', hands no
\* INSERT to the store, and no step of it changes the table.
C2_Step(r) ==
    /\ (pc[r] = "select" /\ pc'[r] = "selected" /\ ~outcome'[r].err)
          => (Len(outcome'[r].rows) > 0 <=> Holding(incidents, CaseOf(r)) # {})
    /\ (/\ pc[r] = "selected" /\ req[r].method = "PUT" /\ pc'[r] # pc[r]
        /\ ~outcome[r].err /\ Len(outcome[r].rows) > 0)
          => /\ pc'[r] = "done"
             /\ resp'[r] = << DuplicateResponse >>
             /\ call'[r].sql = ExistsQuery
             /\ incidents' = incidents
    /\ (pc'[r] = "done" /\ req'[r].method = "PUT" /\ resp'[r] = << DuplicateResponse >>)
          => wrote'[r] = 0 /\ call'[r].sql # InsertQuery
    /\ (pc'[r] # pc[r] /\ pc[r] # "run") => incidents' = incidents

C2_DuplicatePutRejected == [][\A r \in Req : C2_Step(r)]_vars

C2_Witness ==
    \E r \in Req :
        /\ req[r].method = "PUT" /\ pc[r] = "done"
        /\ resp[r] = << DuplicateResponse >>
        /\ Holding(incidents, CaseOf(r)) # {}

\* C3: the DELETE statement of a DELETE /remove-incident removes the rows
\* with the request's case_number (the one row, when there is one) and
\* leaves every other row as it was, in place; a DELETE whose existence
\* check finds no row answers 500 'Case number does not exist in database'
\* and changes neither the table nor its row count.
C3_Step(r) ==
    /\ (/\ pc[r] = "run" /\ req[r].method = "DELETE" /\ pc'[r] = "ran"
        /\ ~outcome'[r].err)
          => /\ Holding(incidents', CaseOf(r)) = {}
             /\ Len(incidents') =
                    Len(incidents) - Cardinality(Holding(incidents, CaseOf(r)))
             /\ \A i \in DOMAIN incidents \ Holding(incidents, CaseOf(r)) :
                    incidents'[i - Cardinality({k \in Holding(incidents, CaseOf(r)) : k < i})]
                        = incidents[i]
    /\ (/\ pc[r] = "selected" /\ req[r].method = "DELETE" /\ pc'[r] # pc[r]
        /\ ~outcome[r].err /\ Len(outcome[r].rows) = 0)
          => /\ pc'[r] = "done"
             /\ resp'[r] = << MissingResponse >>
             /\ incidents' = incidents
             /\ Len(incidents') = Len(incidents)
    /\ (pc'[r] = "done" /\ req'[r].method = "DELETE" /\ resp'[r] = << MissingResponse >>)
          => wrote'[r] = 0 /\ call'[r].sql # DeleteQuery

C3_DeleteRemovesExactlyThatRow == [][\A r \in Req : C3_Step(r)]_vars

\* A DELETE has removed its row and another row is still there.
C3_Witness ==
    \E r \in Req :
        /\ req[r].method = "DELETE" /\ pc[r] = "done"
        /\ resp[r] = << OkResponse >> /\ wrote[r] = 1
        /\ Holding(incidents, CaseOf(r)) = {}
        /\ incidents # <<>>

\* C4: the existence check and the write of a request are two separate
\* store operations: the step that executes the check writes nothing, and
\* a write is executed only for a request that is past its check and
\* waiting in dbRun.  The race is the witness: two requests for one
\* case_number have both passed the check and neither has written.
C4_Step(r) ==
    /\ (pc[r] = "select" /\ pc'[r] # pc[r])
          => pc'[r] = "selected" /\ incidents' = incidents /\ wrote' = wrote
    /\ (wrote'[r] # wrote[r]) => pc[r] = "run" /\ pc'[r] = "ran"
    /\ pc'[r] = "run" => wrote'[r] = 0 /\ call'[r].sql \in {InsertQuery, DeleteQuery}

C4_CheckThenAct == [][\A r \in Req : C4_Step(r)]_vars

C4_BothPassedTheCheck ==
    \E r1, r2 \in Req :
        /\ r1 # r2 /\ CaseOf(r1) = CaseOf(r2)
        /\ req[r1].method = req[r2].method
        /\ pc[r1] = "run" /\ pc[r2] = "run"
        /\ wrote[r1] = 0 /\ wrote[r2] = 0

Answers(r) == {resp[r][i] : i \in DOMAIN resp[r]}

ErrorResponse(r) ==
    IF req[r].method = "PUT" THEN InsertErrorResponse ELSE DeleteErrorResponse

PreconditionResponse(r) ==
    IF req[r].method = "PUT" THEN DuplicateResponse ELSE MissingResponse

PreconditionViolated(r) ==
    IF req[r].method = "PUT" THEN Len(outcome[r].rows) > 0 ELSE Len(outcome[r].rows) = 0

\* C9: every PUT and DELETE request that has arrived runs to completion
\* and answers exactly once: 200 'OK' exactly when it got past its
\* existence check and its own write completed without a store error, else
\* 500 plain text (the precondition's message on a duplicate create or a
\* missing delete target, the fixed insert/delete message on a store
\* failure); OK is never sent before the write has completed.
C9_Answered(r) ==
    /\ Len(resp[r]) <= 1
    /\ pc[r] = "done" <=> Len(resp[r]) = 1
    /\ OkResponse \in Answers(r) => wrote[r] = 1 /\ pc[r] = "done"
    /\ pc[r] = "done" =>
          LET a == resp[r][1]
              checkOnly == call[r].sql = ExistsQuery
          IN  /\ a.type = "txt"
              /\ a = OkResponse <=> (~checkOnly /\ ~outcome[r].err /\ wrote[r] = 1)
              /\ a # OkResponse =>
                    /\ a.status = 500
                    /\ wrote[r] = 0
                    /\ IF outcome[r].err THEN a = ErrorResponse(r)
                       ELSE /\ checkOnly /\ PreconditionViolated(r)
                            /\ a = PreconditionResponse(r)

C9_RunsToCompletionAnswersOnce ==
    /\ [](\A r \in Req : C9_Answered(r))
    /\ \A r \in Req : (pc[r] # "idle") ~> (pc[r] = "done")

\* One request has answered OK and another has answered the fixed message
\* after the store failed its write.
C9_Witness ==
    \E r1, r2 \in Req :
        /\ pc[r1] = "done" /\ resp[r1] = << OkResponse >>
        /\ pc[r2] = "done" /\ resp[r2] = << ErrorResponse(r2) >>
        /\ call[r2].sql # ExistsQuery

\* The row a PUT with body b inserts.
RowOf(b) ==
    [case_number |-> b.case_number, date_time |-> b.date \o << " " >> \o b.time,
     code |-> b.code, incident |-> b.incident, police_grid |-> b.police_grid,
     neighborhood_number |-> b.neighborhood_number, block |-> b.block]

\* YYYY-MM-DD and HH:MM:SS, the forms date() and time() return unchanged.
IsoDate(d) == Len(d) = 10 /\ ValidYmd(d)
IsoTime(t) ==
    /\ Len(t) = 8
    /\ TwoDigits(t, 1) /\ t[3] = ":" /\ TwoDigits(t, 4) /\ t[6] = ":" /\ TwoDigits(t, 7)
    /\ Num2(t, 1) <= 23 /\ Num2(t, 4) <= 59 /\ Num2(t, 7) <= 59

GotIncidents == lastGet.endpoint = "/incidents" /\ lastGet.status = 200

Matched(row) == \E i \in DOMAIN lastGet.matched : lastGet.matched[i] = row

\* The steps of a PUT whose check found no row: it hands the INSERT to the
\* store, the INSERT adds the one row of the body, and the answer is OK.
C5_PutStep(r) ==
    /\ (/\ pc[r] = "selected" /\ req[r].method = "PUT" /\ pc'[r] # pc[r]
        /\ ~outcome[r].err /\ Len(outcome[r].rows) = 0)
          => pc'[r] = "run" /\ call'[r].sql = InsertQuery
    /\ (/\ pc[r] = "run" /\ req[r].method = "PUT" /\ pc'[r] = "ran"
        /\ ~outcome'[r].err)
          => incidents' = Append(incidents, RowOf(req[r].body))
    /\ (/\ pc[r] = "ran" /\ req[r].method = "PUT" /\ pc'[r] # pc[r]
        /\ ~outcome[r].err)
          => resp'[r] = << OkResponse >>

\* The statement of C5 as the spec makes it: whenever the filters of a GET
\* /incidents match the row of a successful PUT, the response holds a row
\* with that case_number, the submitted date and the submitted time.
C5_SubmittedDateAndTimeReturned ==
    GotIncidents =>
        \A r \in Req :
            (/\ req[r].method = "PUT" /\ resp[r] = << OkResponse >>
             /\ Matched(RowOf(req[r].body)))
                => \E j \in DOMAIN lastGet.rows :
                      /\ lastGet.rows[j].case_number = CaseOf(r)
                      /\ lastGet.rows[j].date = TextVal(req[r].body.date)
                      /\ lastGet.rows[j].time = TextVal(req[r].body.time)

C5_Returned(r) ==
    (/\ req[r].method = "PUT" /\ resp[r] = << OkResponse >>
     /\ Matched(RowOf(req[r].body))
     /\ Len(lastGet.rows) = Len(lastGet.matched))
        => \E j \in DOMAIN lastGet.rows :
              /\ lastGet.rows[j].case_number = CaseOf(r)
              /\ lastGet.picked[j] = RowOf(req[r].body)
              /\ IsoDate(req[r].body.date) /\ IsoTime(req[r].body.time)
                    => /\ lastGet.rows[j].date = TextVal(req[r].body.date)
                       /\ lastGet.rows[j].time = TextVal(req[r].body.time)

C5_GetState == GotIncidents => \A r \in Req : C5_Returned(r)

\* C5 (amended): a PUT /new-incident whose check finds no row and whose
\* INSERT the store does not fail answers 200 'OK' and adds exactly one
\* row, with the given case_number and date_time = date, one space, time;
\* a later GET /incidents whose filters the row satisfies and whose limit
\* cuts nothing off returns the row, with date and time equal to the
\* submitted ones when these have the forms YYYY-MM-DD and HH:MM:SS.
C5_NewIncidentStoredAndReturned ==
    [][(\A r \in Req : C5_PutStep(r)) /\ C5_GetState']_vars

C5_Witness ==
    /\ GotIncidents
    /\ \E r \in Req :
          /\ req[r].method = "PUT" /\ resp[r] = << OkResponse >>
          /\ IsoDate(req[r].body.date) /\ IsoTime(req[r].body.time)
          /\ Given(lastGet.query.start_date)
          /\ \E j \in DOMAIN lastGet.rows :
                /\ lastGet.picked[j] = RowOf(req[r].body)
                /\ lastGet.rows[j].date = TextVal(req[r].body.date)

(***************************************************************************)
(* The GET handlers                                                        *)
(***************************************************************************)
\* The number of comma-separated tokens of a text.
RECURSIVE Commas(_)
Commas(s) == IF s = <<>> THEN 0 ELSE (IF Head(s) = "," THEN 1 ELSE 0) + Commas(Tail(s))

NumTokens(s) == 1 + Commas(s)

\* What of a request the statement's text may depend on: which parameters
\* are given, and the number of tokens of each list parameter.
ListShape(x) == IF Given(x) THEN NumTokens(x) ELSE 0

IncidentShape(q) ==
    << Given(q.start_date), Given(q.end_date), ListShape(q.code), ListShape(q.grid),
       ListShape(q.neighborhood), Given(q.limit) >>

\* C6: request values are bound, never written into SQL text: the text a
\* GET handler sends is the text it sends for every request with the same
\* parameters present and the same number of tokens in each list, and the
\* statements of PUT and DELETE are fixed texts.
C6_TextIndependentOfValues ==
    /\ lastGet.endpoint = "/incidents" =>
          \A q \in IncidentQueries :
              IncidentShape(q) = IncidentShape(lastGet.query)
                  => BuildIncidents(q).sql = lastGet.sql
    /\ lastGet.endpoint = "/codes" =>
          \A q \in CodeQueries :
              ListShape(q.code) = ListShape(lastGet.query.code)
                  => BuildCodes(q).sql = lastGet.sql
    /\ lastGet.endpoint = "/neighborhoods" =>
          \A q \in NeighborhoodQueries :
              ListShape(q.id) = ListShape(lastGet.query.id)
                  => BuildNeighborhoods(q).sql = lastGet.sql
    /\ \A r \in Req :
          /\ pc[r] \in {"select", "selected"} => call[r].sql = ExistsQuery
          /\ pc[r] \in {"run", "ran"} =>
                call[r].sql = IF req[r].method = "PUT" THEN InsertQuery ELSE DeleteQuery

\* A GET /incidents with two codes and a start date, and another request of
\* the same shape with other codes, for which the handler builds that text.
C6_Witness ==
    /\ lastGet.endpoint = "/incidents"
    /\ ListShape(lastGet.query.code) = 2 /\ Given(lastGet.query.start_date)
    /\ \E q \in IncidentQueries :
          /\ q.code # lastGet.query.code /\ q.limit # lastGet.query.limit
          /\ IncidentShape(q) = IncidentShape(lastGet.query)
          /\ BuildIncidents(q).sql = lastGet.sql

\* Rows in descending date_time order.
Descending(rows) ==
    \A j \in 1..(Len(rows) - 1) : ~TextLess(rows[j].date_time, rows[j + 1].date_time)

\* `some` are rows of `all`, and every row of `all` with a date_time
\* greater than the least of `some` is among them.
Greatest(some, all) ==
    /\ {some[j] : j \in DOMAIN some} \subseteq {all[i] : i \in DOMAIN all}
    /\ some # <<>> =>
          LET low == some[Len(some)].date_time
          IN  Len(SelectSeq(all, LAMBDA r : TextLess(low, r.date_time)))
                  = Len(SelectSeq(some, LAMBDA r : TextLess(low, r.date_time)))

\* The returned rows are the columns of the picked table rows, in order.
ReturnedArePicked ==
    /\ Len(lastGet.rows) = Len(lastGet.picked)
    /\ \A j \in DOMAIN lastGet.rows :
          lastGet.rows[j].case_number = lastGet.picked[j].case_number

Capped(k) ==
    /\ Len(lastGet.rows) <= k
    /\ k < Len(lastGet.matched) =>
          /\ Len(lastGet.rows) = k
          /\ ReturnedArePicked
          /\ Descending(lastGet.picked)
          /\ Greatest(lastGet.picked, lastGet.matched)

\* The statement of C7 as the spec makes it: every limit that parses as an
\* integer k caps the result at k rows.
C7_EveryIntegerLimitCaps ==
    GotIncidents =>
        /\ (Given(lastGet.query.limit) /\ ParseInt(lastGet.query.limit).t = "int")
              => Capped(ParseInt(lastGet.query.limit).v)
        /\ ~Given(lastGet.query.limit) => Len(lastGet.rows) <= 1000

\* C7 (amended): for every limit that parses as an integer k >= 0 at most
\* k rows are returned; when N rows match and k < N exactly k are returned,
\* the k with the greatest date_time, in descending date_time order; with
\* no limit given at most 1000 rows are returned.
C7_LimitCaps ==
    GotIncidents =>
        /\ (/\ Given(lastGet.query.limit)
            /\ ParseInt(lastGet.query.limit).t = "int"
            /\ ParseInt(lastGet.query.limit).v >= 0)
              => Capped(ParseInt(lastGet.query.limit).v)
        /\ ~Given(lastGet.query.limit) =>
              /\ Len(lastGet.rows) <= 1000
              /\ Len(lastGet.matched) > 1000 => Capped(1000)

\* Fewer rows are returned than match, under a limit that is given.
C7_Witness ==
    /\ GotIncidents
    /\ lastGet.query.limit = Two /\ Given(lastGet.query.code)
    /\ Len(lastGet.matched) > 2 /\ Len(lastGet.rows) = 2
    /\ lastGet.picked[1].date_time # lastGet.picked[2].date_time

\* The integers among the tokens of a list parameter.
IntsOf(x) ==
    LET tokens == Split(x)
    IN  {ParseInt(Trim(tokens[i])).v :
            i \in {k \in DOMAIN tokens : ParseInt(Trim(tokens[k])).t = "int"}}

InList(x, n) == Given(x) => n \in IntsOf(x)

\* The date of a row is on or after start_date, on or before end_date.
FromDate(x, row) ==
    Given(x) => SqliteDate(row.date_time) # Null
                /\ TextLeq(x, SqliteDate(row.date_time).v)
ToDate(x, row) ==
    Given(x) => SqliteDate(row.date_time) # Null
                /\ TextLeq(SqliteDate(row.date_time).v, x)

IncidentSatisfies(q, row) ==
    /\ FromDate(q.start_date, row) /\ ToDate(q.end_date, row)
    /\ InList(q.code, row.code)
    /\ InList(q.grid, row.police_grid)
    /\ InList(q.neighborhood, row.neighborhood_number)

\* C8: the rows a GET selects, before ordering and limit, are exactly the
\* rows that satisfy every filter given: the field is one of the integers
\* of the list for code, grid, neighborhood (code on /codes, id on
\* /neighborhoods), date >= start_date, date <= end_date; a filter that is
\* not given excludes no row.
C8_ExactlyTheRowsThatSatisfyEveryFilter ==
    lastGet.status = 200 =>
        /\ lastGet.endpoint = "/incidents" =>
              lastGet.matched =
                  SelectSeq(incidents, LAMBDA row : IncidentSatisfies(lastGet.query, row))
        /\ lastGet.endpoint = "/codes" =>
              lastGet.matched =
                  SelectSeq(CodesTable, LAMBDA row : InList(lastGet.query.code, row.code))
        /\ lastGet.endpoint = "/neighborhoods" =>
              lastGet.matched =
                  SelectSeq(NeighborhoodsTable,
                            LAMBDA row : InList(lastGet.query.id, row.neighborhood_number))

\* A GET /incidents with both dates and a list given has selected some rows
\* and left others out.
C8_Witness ==
    /\ GotIncidents
    /\ Given(lastGet.query.start_date) /\ Given(lastGet.query.end_date)
    /\ Given(lastGet.query.code) /\ Given(lastGet.query.neighborhood)
    /\ lastGet.matched # <<>>
    /\ Len(lastGet.matched) < Len(incidents)
    /\ Len(incidents) < 1000

\* The values of the tokens of a list parameter, in token order.
TokenValues(x) ==
    IF Given(x) THEN [i \in 1..NumTokens(x) |-> ParseInt(Trim(Split(x)[i]))] ELSE <<>>

When(x, v) == IF Given(x) THEN << v >> ELSE <<>>

\* The conditions a request asks for, in the handler's order, each with
\* the number of its placeholders.
ExpectedConds(endpoint, q) ==
    IF endpoint = "/codes" THEN When(q.code, [frag |-> CodeIn, n |-> NumTokens(q.code)])
    ELSE IF endpoint = "/neighborhoods"
    THEN When(q.id, [frag |-> NeighborhoodIn, n |-> NumTokens(q.id)])
    ELSE When(q.start_date, [frag |-> DateGe, n |-> 1])
         \o When(q.end_date, [frag |-> DateLe, n |-> 1])
         \o When(q.code, [frag |-> CodeIn, n |-> NumTokens(q.code)])
         \o When(q.grid, [frag |-> GridIn, n |-> NumTokens(q.grid)])
         \o When(q.neighborhood, [frag |-> NeighborhoodIn, n |-> NumTokens(q.neighborhood)])

ExpectedParams(endpoint, q) ==
    IF endpoint = "/codes" THEN TokenValues(q.code)
    ELSE IF endpoint = "/neighborhoods" THEN TokenValues(q.id)
    ELSE When(q.start_date, TextVal(q.start_date))
         \o When(q.end_date, TextVal(q.end_date))
         \o TokenValues(q.code) \o TokenValues(q.grid) \o TokenValues(q.neighborhood)
         \o << IF Given(q.limit) THEN ParseInt(q.limit) ELSE IntVal(1000) >>

Occurrences(sql, frag) == Cardinality({i \in DOMAIN sql : sql[i] = frag})

\* The first placeholder of the k-th condition follows the placeholders of
\* the conditions before it.
RECURSIVE FirstMark(_, _)
FirstMark(conds, k) == IF k = 1 THEN 1 ELSE FirstMark(conds, k - 1) + conds[k - 1].n

\* C10: for each list parameter given the builder emits one IN condition
\* with one placeholder per comma-separated token, malformed tokens
\* included (kept as NaN), and appends the parsed values in token order;
\* the conditions come in the order start_date, end_date, code, grid,
\* neighborhood, joined by AND; the statement has as many placeholders as
\* the parameter list has values, the k-th bound to the k-th; with no
\* filter given there is no WHERE clause.
C10_PlaceholdersMatchParameters ==
    lastGet.endpoint # "none" =>
        LET found == ParseConds(lastGet.sql, 1)
            asked == ExpectedConds(lastGet.endpoint, lastGet.query)
        IN  /\ Len(found) = Len(asked)
            /\ \A k \in DOMAIN asked :
                  /\ found[k].frag = asked[k].frag
                  /\ found[k].n = asked[k].n
                  /\ found[k].first = FirstMark(asked, k)
            /\ lastGet.params = ExpectedParams(lastGet.endpoint, lastGet.query)
            /\ CountMarks(lastGet.sql) = Len(lastGet.params)
            /\ Occurrences(lastGet.sql, " WHERE ") = IF asked = <<>> THEN 0 ELSE 1
            /\ Occurrences(lastGet.sql, " AND ") = IF asked = <<>> THEN 0 ELSE Len(asked) - 1

\* A GET /incidents with a date and a list one of whose tokens is no number.
C10_Witness ==
    /\ lastGet.endpoint = "/incidents"
    /\ Given(lastGet.query.start_date) /\ Given(lastGet.query.neighborhood)
    /\ lastGet.query.code = TwoBad
    /\ \E k \in DOMAIN lastGet.params : lastGet.params[k] = NaN
    /\ Occurrences(lastGet.sql, " AND ") = 2

=============================================================================
